---- MODULE Spec2Model ----
(***************************************************************************)
(* Weather Dashboard (run.py): CSV load, column-role guessing, numeric     *)
(* coercion, Fahrenheit -> Celsius conversion, plotting frame, KPIs and    *)
(* CSV export, as a state machine over one Streamlit session.              *)
(*                                                                         *)
(* Strings are sequences of one-character strings, so that lower() and     *)
(* the substring test `sub in name` are computed and not assumed.          *)
(* Numbers are exact rationals <<n, d>> in lowest terms with d > 0.        *)
(***************************************************************************)
EXTENDS Integers, Sequences, FiniteSets, TLC

VARIABLES
    call,       \* the helper call under test: [fn, args..., ret]
    source,     \* what the CSV path / upload holds: CSV text, or Unreadable
    widgets,    \* the session's widget state: NoWidgets on a fresh session
    pc,         \* position of the script run
    df,         \* the loaded table (run.py:24/35)
    idx,        \* the selectboxes' default indices (run.py:78,83,91)
    sel,        \* temp_col, hum_col, unit, x_col of this run
    work,       \* the working copy (run.py:97)
    plot_df,    \* the plotting frame (run.py:111-124)
    shown       \* what this run rendered: messages, KPIs, chart, list, export

vars == <<call, source, widgets, pc, df, idx, sel, work, plot_df, shown>>
pipeVars == <<source, widgets, pc, df, idx, sel, work, plot_df, shown>>

\* ------------------------------------------------------------------ bounds
MaxNameLen == 2     \* helper specs: longest column name
MaxCols == 2        \* helper specs: most columns / options of a call
MaxCells == 3       \* session spec: most data cells (rows * columns) of a CSV

\* ------------------------------------------------------------- sequences
Range(s) == {s[i] : i \in DOMAIN s}
SeqsUpTo(S, n) == UNION {[1..k -> S] : k \in 0..n}
Min2(a, b) == IF a <= b THEN a ELSE b

\* Python's None; no column name is this one-element sequence.
None == <<"<None>">>

\* ------------------------------------------------------------- str.lower
Lower(ch) ==
    CASE ch = "T" -> "t"
      [] ch = "D" -> "d"
      [] ch = "H" -> "h"
      [] ch = "C" -> "c"
      [] OTHER -> ch

\* str.lower(): character by character
lower(name) == [i \in DOMAIN name |-> Lower(name[i])]

\* Python's `sub in name` on strings: some window of name equals sub
\* (the empty string is in every string).
Contains(sub, name) ==
    \E i \in 1..(Len(name) - Len(sub) + 1) :
        SubSeq(name, i, i + Len(sub) - 1) = sub

\* ------------------------------------------------------------ first_match
RECURSIVE ScanNames(_, _, _)
\* the inner loop `for i, name in enumerate(lowered)`: first i with sub in
\* name, or 0 when the loop ends without returning
ScanNames(lowered, sub, i) ==
    IF i > Len(lowered) THEN 0
    ELSE IF Contains(sub, lowered[i]) THEN i
    ELSE ScanNames(lowered, sub, i + 1)

RECURSIVE ScanSubs(_, _, _, _)
\* the outer loop `for sub in substrings`
ScanSubs(cols, lowered, substrings, j) ==
    IF j > Len(substrings) THEN None
    ELSE LET i == ScanNames(lowered, substrings[j], 1)
         IN IF i # 0 THEN cols[i]
            ELSE ScanSubs(cols, lowered, substrings, j + 1)

RECURSIVE ScanColsFirst(_, _, _, _)
ScanColsFirst(cols, lowered, substrings, i) ==
    IF i > Len(lowered) THEN None
    ELSE IF \E j \in DOMAIN substrings : Contains(substrings[j], lowered[i])
         THEN cols[i]
         ELSE ScanColsFirst(cols, lowered, substrings, i + 1)

\* mutant: the loops nested the other way round (first column matching any
\* substring), as the docstring of first_match could be read
first_match_colmajor(cols, substrings) ==
    ScanColsFirst(cols, [i \in DOMAIN cols |-> lower(cols[i])], substrings, 1)

first_match(cols, substrings) ==
    LET lowered == [i \in DOMAIN cols |-> lower(cols[i])]
    IN ScanSubs(cols, lowered, substrings, 1)

\* ------------------------------------------------------------- safe_index
RECURSIVE IndexFrom(_, _, _)
\* list.index(value): the 0-based position of the first equal element, or
\* ValueError
IndexFrom(options, value, i) ==
    IF i > Len(options) THEN [raised |-> TRUE, v |-> 0]
    ELSE IF options[i] = value THEN [raised |-> FALSE, v |-> i - 1]
    ELSE IndexFrom(options, value, i + 1)

list_index(options, value) == IndexFrom(options, value, 1)

\* mutant: no try/except around options.index
safe_index_unguarded(options, value, offset, fallback) ==
    IF value = None THEN [raised |-> FALSE, v |-> fallback]
    ELSE LET r == list_index(options, value)
         IN IF r.raised THEN r ELSE [raised |-> FALSE, v |-> offset + r.v]

\* the outcome of a call: raised (an exception left the function) or the int
safe_index(options, value, offset, fallback) ==
    IF value = None THEN [raised |-> FALSE, v |-> fallback]
    ELSE LET r == list_index(options, value)
         IN IF r.raised
            THEN [raised |-> FALSE, v |-> fallback]        \* except Exception
            ELSE [raised |-> FALSE, v |-> offset + r.v]

\* ---------------------------------------------------------------- numbers
Abs(x) == IF x < 0 THEN -x ELSE x

RECURSIVE GCD(_, _)
GCD(a, b) == IF b = 0 THEN a ELSE GCD(b, a % b)

\* the rational n/d (d > 0) in lowest terms
Norm(n, d) == LET g == GCD(Abs(n), d) IN <<n \div g, d \div g>>

RAdd(p, q) == Norm(p[1] * q[2] + q[1] * p[2], p[2] * q[2])
RLess(p, q) == p[1] * q[2] < q[1] * p[2]
RDivInt(p, k) == Norm(p[1], p[2] * k)

\* ------------------------------------------------------------------ cells
\* A cell of a table: missing (NaN), text, or a number.
NaN == [k |-> "nan", q |-> <<0, 1>>, s |-> <<>>]
Str(s) == [k |-> "str", q |-> <<0, 1>>, s |-> s]
Num(q) == [k |-> "num", q |-> q, s |-> <<>>]

isna(c) == c.k = "nan"

\* pd.to_numeric(..., errors="coerce") on one cell: text that is not a
\* number becomes NaN (run.py:100,102)
to_numeric(c) == IF c.k = "num" THEN c ELSE NaN

\* mutant: 9/5 for 5/9
FtoC_inverted(c) ==
    IF c.k = "num" THEN Num(Norm((c.q[1] - 32 * c.q[2]) * 9, c.q[2] * 5)) ELSE c

\* (x - 32) * 5.0 / 9.0 on one cell; NaN stays NaN (run.py:106)
FtoC(c) ==
    IF c.k = "num" THEN Num(Norm((c.q[1] - 32 * c.q[2]) * 5, c.q[2] * 9)) ELSE c

\* --------------------------------------------------------------- CSV text
\* A CSV text is a header line (column names) and data lines of fields; a
\* field is empty, text, or a decimal numeral m / 10^e.
Empty == [t |-> "empty", m |-> 0, e |-> 0, s |-> <<>>]
Text(s) == [t |-> "text", m |-> 0, e |-> 0, s |-> s]
Numeral(m, e) == [t |-> "numeral", m |-> m, e |-> e, s |-> <<>>]

\* decimal places written for a float: Python's repr keeps at least this
\* many for the magnitudes of a temperature
Places == 6
Scale == 10 ^ Places

parse_field(f) ==
    CASE f.t = "empty" -> NaN
      [] f.t = "text" -> Str(f.s)
      [] OTHER -> Num(Norm(f.m, 10 ^ f.e))

\* mutant: floats written with one decimal place (the KPI format "{:.1f}")
format_cell_1f(c) ==
    CASE c.k = "nan" -> Empty
      [] c.k = "str" -> Text(c.s)
      [] OTHER ->
           LET ip == c.q[1] \div c.q[2]
               rem == c.q[1] - ip * c.q[2]
           IN Numeral(ip * 10 + (2 * rem * 10 + c.q[2]) \div (2 * c.q[2]), 1)

\* to_csv on one cell: NaN as the empty field, a number as its decimal
\* numeral rounded to Places places
format_cell(c) ==
    CASE c.k = "nan" -> Empty
      [] c.k = "str" -> Text(c.s)
      [] OTHER ->
           LET ip == c.q[1] \div c.q[2]
               rem == c.q[1] - ip * c.q[2]
           IN Numeral(ip * Scale + (2 * rem * Scale + c.q[2]) \div (2 * c.q[2]),
                      Places)

\* a line pandas skips (skip_blank_lines=True): nothing on it at all
blank_line(line) == Len(line) = 1 /\ line[1] = Empty

RECURSIVE non_blank(_)
non_blank(lines) ==
    IF lines = <<>> THEN <<>>
    ELSE IF blank_line(lines[1]) THEN non_blank(Tail(lines))
    ELSE <<lines[1]>> \o non_blank(Tail(lines))

Unreadable == [kind |-> "unreadable", header |-> <<>>, lines |-> <<>>]
NoUpload == [kind |-> "noupload", header |-> <<>>, lines |-> <<>>]
Csv(header, lines) == [kind |-> "csv", header |-> header, lines |-> lines]

NoTable == [cols |-> <<>>, rows |-> <<>>]

\* pd.read_csv: raises on a path that cannot be read and on text with no
\* header line; otherwise a table of the non-blank data lines (run.py:24,35)
read_csv(src) ==
    IF src.kind # "csv" \/ src.header = <<>>
    THEN [raised |-> TRUE, table |-> NoTable]
    ELSE LET kept == non_blank(src.lines)
         IN [raised |-> FALSE,
             table |-> [cols |-> src.header,
                        rows |-> [i \in DOMAIN kept |->
                                    [j \in DOMAIN kept[i] |->
                                        parse_field(kept[i][j])]]]]

\* mutant: the export of the plotting frame's rows only
to_csv_dropna(t) ==
    LET kept == SelectSeq(t.rows, LAMBDA r : \E j \in DOMAIN r : ~isna(r[j]))
    IN Csv(t.cols, [i \in DOMAIN kept |->
                        [j \in DOMAIN kept[i] |-> format_cell(kept[i][j])]])

\* DataFrame.to_csv(buf, index=False): header line, one line per row
\* (run.py:168)
to_csv(t) ==
    Csv(t.cols, [i \in DOMAIN t.rows |->
                    [j \in DOMAIN t.rows[i] |-> format_cell(t.rows[i][j])]])

\* DataFrame.empty: some axis has length 0 (run.py:41)
df_empty(t) == Len(t.cols) = 0 \/ Len(t.rows) = 0

\* ------------------------------------------------------------ table access
ColPos(t, name) == CHOOSE j \in DOMAIN t.cols : t.cols[j] = name

\* t[name]
GetCol(t, name) == [i \in DOMAIN t.rows |-> t.rows[i][ColPos(t, name)]]

\* t[name] = series: in place when the column exists, appended otherwise
SetCol(t, name, series) ==
    IF name \in Range(t.cols)
    THEN [cols |-> t.cols,
          rows |-> [i \in DOMAIN t.rows |->
                      [t.rows[i] EXCEPT ![ColPos(t, name)] = series[i]]]]
    ELSE [cols |-> Append(t.cols, name),
          rows |-> [i \in DOMAIN t.rows |-> Append(t.rows[i], series[i])]]

\* ------------------------------------------------------------------ names
N_Temp == <<"T", "e", "m", "p">>
N_hum == <<"h", "u", "m">>
N_Date == <<"D", "a", "t", "e">>
N_id == <<"i", "d">>
Temperature_C == <<"T", "e", "m", "p", "e", "r", "a", "t", "u", "r", "e", "_", "C">>
Temperature_degC == <<"T", "e", "m", "p", "e", "r", "a", "t", "u", "r", "e", " ", "(", "°", "C", ")">>
Humidity_pct == <<"H", "u", "m", "i", "d", "i", "t", "y", " ", "(", "%", ")">>
NONE_OPTION == <<"<", "n", "o", "n", "e", ">">>
INDEX_OPTION == <<"<", "i", "n", "d", "e", "x", ">">>
SUB_temp == <<"t", "e", "m", "p">>
SUB_hum == <<"h", "u", "m">>
SUB_date == <<"d", "a", "t", "e">>
SUB_time == <<"t", "i", "m", "e">>
SUB_day == <<"d", "a", "y">>
SUB_timestamp == <<"t", "i", "m", "e", "s", "t", "a", "m", "p">>

\* ------------------------------------------------------- column selectors
\* st.selectbox(options, index): the option at the default index on a fresh
\* session, the user's choice afterwards; an index outside the options is a
\* StreamlitAPIException
ApiError == <<"<StreamlitAPIException>">>
NoChoice == <<"<NoChoice>">>

selectbox(options, index, chosen) ==
    IF index < 0 \/ index >= Len(options) THEN ApiError
    ELSE IF chosen = NoChoice THEN options[index + 1]
    ELSE chosen

NoWidgets ==
    [temp_col |-> NoChoice, hum_col |-> NoChoice, unit |-> NoChoice, x_col |-> NoChoice]
NoSel == [temp_col |-> None, hum_col |-> None, unit |-> None, x_col |-> None]
NoIdx == [temp_idx |-> -1, hum_idx |-> -1, x_idx |-> -1]

UNIT_C == <<"°", "C">>
UNIT_F == <<"°", "F">>
UNITS == <<UNIT_C, UNIT_F>>

temp_guess_of(cols) == first_match(cols, <<SUB_temp>>)
hum_guess_of(cols) == first_match(cols, <<SUB_hum>>)
x_guess_of(cols) == first_match(cols, <<SUB_date, SUB_time, SUB_day, SUB_timestamp>>)

\* mutant: the humidity index without the offset of the "<none>" entry
default_indices_no_offset(cols) ==
    [temp_idx |-> safe_index(cols, temp_guess_of(cols), 0, 0).v,
     hum_idx |-> safe_index(cols, hum_guess_of(cols), 0, 0).v,
     x_idx |-> safe_index(cols, x_guess_of(cols), 1, 0).v]

\* temp_idx, hum_idx, x_idx (run.py:78,83,91)
default_indices(cols) ==
    [temp_idx |-> safe_index(cols, temp_guess_of(cols), 0, 0).v,
     hum_idx |-> safe_index(cols, hum_guess_of(cols), 1, 0).v,
     x_idx |-> safe_index(cols, x_guess_of(cols), 1, 0).v]

hum_options_of(cols) == <<NONE_OPTION>> \o cols
x_options_of(cols) == <<INDEX_OPTION>> \o cols

\* every value the four selectboxes can return for these columns
Selections(cols) ==
    [temp_col : Range(cols), hum_col : Range(hum_options_of(cols)),
     unit : Range(UNITS), x_col : Range(x_options_of(cols))]

\* --------------------------------------------------------- prepare & clean
\* pd.to_datetime(..., errors="coerce") on one cell, then
\* parsed.where(parsed.notna(), raw): the timestamp, or the raw value
\* (run.py:118-119)
to_datetime_or_raw(c) == IF c.k = "num" THEN [c EXCEPT !.k = "ts"] ELSE c

\* mutant: the coercions write through to the loaded table (work = df)
df_aliased(loaded, worked) == worked

\* work = df.copy(): what the loaded table is after the working copy was
\* coerced and extended (run.py:97)
df_after_copy(loaded, worked) == loaded

\* lines 97-108: the working copy with the chosen columns coerced and the
\* Temperature_C column set
build_work(t, s) ==
    LET w1 == SetCol(t, s.temp_col,
                     [i \in DOMAIN t.rows |-> to_numeric(GetCol(t, s.temp_col)[i])])
        w2 == IF s.hum_col # NONE_OPTION
              THEN SetCol(w1, s.hum_col,
                          [i \in DOMAIN t.rows |-> to_numeric(GetCol(w1, s.hum_col)[i])])
              ELSE w1
        tc == IF s.unit = UNIT_F
              THEN [i \in DOMAIN t.rows |-> FtoC(GetCol(w2, s.temp_col)[i])]
              ELSE GetCol(w2, s.temp_col)
    IN SetCol(w2, Temperature_C, tc)

\* mutant: dropna(how="any")
dropna_any(rows) == SelectSeq(rows, LAMBDA r : \A j \in DOMAIN r.vals : ~isna(r.vals[j]))

\* DataFrame.dropna(how="all"): rows whose every value is NaN go (run.py:124)
dropna_all(rows) == SelectSeq(rows, LAMBDA r : \E j \in DOMAIN r.vals : ~isna(r.vals[j]))

NoPlot == [cols |-> <<>>, rows |-> <<>>]

\* lines 111-124: the plotting frame; each row keeps its position in the
\* loaded table (pos) and its index label
build_plot(w, s) ==
    LET n == Len(w.rows)
        tc == GetCol(w, Temperature_C)
        label(i) == IF s.x_col # INDEX_OPTION
                    THEN to_datetime_or_raw(GetCol(w, s.x_col)[i])
                    ELSE Num(<<i - 1, 1>>)
        vals(i) == IF s.hum_col # NONE_OPTION
                   THEN <<tc[i], GetCol(w, s.hum_col)[i]>>
                   ELSE <<tc[i]>>
    IN [cols |-> IF s.hum_col # NONE_OPTION
                 THEN <<Temperature_degC, Humidity_pct>>
                 ELSE <<Temperature_degC>>,
        rows |-> dropna_all([i \in 1..n |->
                                [pos |-> i, label |-> label(i), vals |-> vals(i)]])]

\* plot_df["Temperature (°C)"].dropna() as a list
temp_values_of(p) ==
    LET kept == SelectSeq(p.rows, LAMBDA r : ~isna(r.vals[1]))
    IN [i \in DOMAIN kept |-> kept[i].vals[1].q]

\* mutant: only the frame's emptiness is tested
no_valid_temperature_frame_only(p) == Len(p.rows) = 0

\* plot_df.empty or plot_df["Temperature (°C)"].dropna().empty (run.py:126)
no_valid_temperature(p) == Len(p.rows) = 0 \/ Len(temp_values_of(p)) = 0

\* ------------------------------------------------------------------- KPIs
RECURSIVE RSum(_)
RSum(qs) == IF qs = <<>> THEN <<0, 1>> ELSE RAdd(qs[1], RSum(Tail(qs)))

RECURSIVE RMin(_)
RMin(qs) ==
    IF Len(qs) = 1 THEN qs[1]
    ELSE LET m == RMin(Tail(qs)) IN IF RLess(m, qs[1]) THEN m ELSE qs[1]

RECURSIVE RMax(_)
RMax(qs) ==
    IF Len(qs) = 1 THEN qs[1]
    ELSE LET m == RMax(Tail(qs)) IN IF RLess(qs[1], m) THEN m ELSE qs[1]

\* Series.mean / min / max, which skip NaN and are NaN over no values
\* (run.py:134-136)
kpis(p) ==
    LET qs == temp_values_of(p)
    IN IF qs = <<>> THEN [avg |-> NaN, min |-> NaN, max |-> NaN]
       ELSE [avg |-> Num(RDivInt(RSum(qs), Len(qs))),
             min |-> Num(RMin(qs)), max |-> Num(RMax(qs))]

\* the cap of the printed value list (run.py:159)
ListCap == 1000

\* temp_values[:1000]
temp_list(p) == LET qs == temp_values_of(p) IN SubSeq(qs, 1, Min2(Len(qs), ListCap))

NoExport == [kind |-> "none", header |-> <<>>, lines |-> <<>>]

\* lines 165-168: the downloadable text
build_export(w) == to_csv(SetCol(w, Temperature_degC, GetCol(w, Temperature_C)))

\* ---------------------------------------------------------------- session
NothingShown ==
    [info |-> FALSE, error |-> "none", selectors |-> FALSE, kpi |-> <<>>,
     chart |-> FALSE, table |-> FALSE, list |-> <<>>, listed |-> FALSE,
     export |-> NoExport]

NoCall == [fn |-> "none"]

\* the CSV texts a session may be given
Tokens == {Empty, Text(<<"a", "b", "c">>), Numeral(32, 0), Numeral(212, 0), Numeral(33, 0)}

Headers ==
    {<<N_Temp>>, <<N_id>>, <<Temperature_C>>,
     <<N_Temp, N_hum>>, <<N_hum, Temperature_C>>, <<N_Date, Temperature_degC>>}

CsvTexts ==
    UNION {UNION {{Csv(h, ls) : ls \in [1..r -> [1..Len(h) -> Tokens]]} :
                    r \in {r \in 0..MaxCells : r * Len(h) <= MaxCells}} :
             h \in Headers}

Sources == {Unreadable, NoUpload, Csv(<<>>, <<>>)} \cup CsvTexts

RunStart ==
    /\ pc = "load"
    /\ df = NoTable
    /\ idx = NoIdx
    /\ sel = NoSel
    /\ work = NoTable
    /\ plot_df = NoPlot
    /\ shown = NothingShown

Init ==
    /\ call = NoCall
    /\ source \in Sources
    /\ widgets = NoWidgets
    /\ RunStart

\* mutant: the empty-table warning without st.stop()
after_load_no_stop(r) ==
    IF r.raised THEN [pc |-> "stopped", error |-> "SourceReadError"]
    ELSE IF df_empty(r.table) THEN [pc |-> "select", error |-> "EmptyInputError"]
    ELSE [pc |-> "select", error |-> "none"]

\* where the run goes after read_csv: st.stop() on a read failure and on an
\* empty table (run.py:26-28, 37-39, 41-43)
after_load(r) ==
    IF r.raised THEN [pc |-> "stopped", error |-> "SourceReadError"]
    ELSE IF df_empty(r.table) THEN [pc |-> "stopped", error |-> "EmptyInputError"]
    ELSE [pc |-> "select", error |-> "none"]

\* lines 19-43: the data source section
Load ==
    /\ pc = "load"
    /\ IF source.kind = "noupload"
       THEN /\ shown' = [shown EXCEPT !.info = TRUE]
            /\ pc' = "stopped"
            /\ df' = df
       ELSE LET r == read_csv(source)
                nxt == after_load(r)
            IN /\ shown' = [shown EXCEPT !.error = nxt.error]
               /\ pc' = nxt.pc
               /\ df' = r.table
    /\ UNCHANGED <<call, source, widgets, idx, sel, work, plot_df>>

\* lines 69-92: the column and unit selectors
Select ==
    /\ pc = "select"
    /\ LET cols == df.cols
           d == default_indices(cols)
       IN /\ idx' = d
          /\ sel' = [temp_col |-> selectbox(cols, d.temp_idx, widgets.temp_col),
                     hum_col |-> selectbox(hum_options_of(cols), d.hum_idx, widgets.hum_col),
                     unit |-> selectbox(UNITS, 0, widgets.unit),
                     x_col |-> selectbox(x_options_of(cols), d.x_idx, widgets.x_col)]
    /\ shown' = [shown EXCEPT !.selectors = TRUE]
    /\ pc' = "prepare"
    /\ UNCHANGED <<call, source, widgets, df, work, plot_df>>

\* lines 97-128: prepare and clean, then the no-valid-temperature stop
Prepare ==
    /\ pc = "prepare"
    /\ sel \in Selections(df.cols)
    /\ LET w == build_work(df, sel)
           p == build_plot(w, sel)
       IN /\ work' = w
          /\ df' = df_after_copy(df, w)
          /\ plot_df' = p
          /\ IF no_valid_temperature(p)
             THEN /\ shown' = [shown EXCEPT !.error = "NoUsableDataError"]
                  /\ pc' = "stopped"
             ELSE /\ shown' = shown
                  /\ pc' = "render"
    /\ UNCHANGED <<call, source, widgets, idx, sel>>

\* lines 133-174: KPIs, chart, raw data table, value list, download
Render ==
    /\ pc = "render"
    /\ shown' = [shown EXCEPT !.kpi = <<kpis(plot_df)>>,
                              !.chart = TRUE,
                              !.table = TRUE,
                              !.list = temp_list(plot_df),
                              !.listed = TRUE,
                              !.export = build_export(work)]
    /\ pc' = "done"
    /\ UNCHANGED <<call, source, widgets, df, idx, sel, work, plot_df>>

\* the options of each selector
OptionsOf(cols) ==
    [temp_col |-> Range(cols), hum_col |-> Range(hum_options_of(cols)),
     unit |-> Range(UNITS), x_col |-> Range(x_options_of(cols))]

\* the user changes one selector: Streamlit keeps the widget values and runs
\* the script again from the top
UserChange ==
    /\ pc \in {"done", "stopped"}
    /\ shown.selectors
    /\ \E w \in DOMAIN sel :
       \E v \in OptionsOf(df.cols)[w] \ {sel[w]} :
          widgets' = [sel EXCEPT ![w] = v]
    /\ pc' = "load"
    /\ df' = NoTable
    /\ idx' = NoIdx
    /\ sel' = NoSel
    /\ work' = NoTable
    /\ plot_df' = NoPlot
    /\ shown' = NothingShown
    /\ UNCHANGED <<call, source>>

Next == Load \/ Select \/ Prepare \/ Render \/ UserChange

Spec == Init /\ [][Next]_vars

\* ------------------------------------------------- the helpers on their own
Idle ==
    /\ source = NoUpload
    /\ widgets = NoWidgets
    /\ pc = "idle"
    /\ df = NoTable
    /\ idx = NoIdx
    /\ sel = NoSel
    /\ work = NoTable
    /\ plot_df = NoPlot
    /\ shown = NothingShown

Alphabet == {"T", "h"}
Names == SeqsUpTo(Alphabet, MaxNameLen)
SubPool == {<<>>, <<"t">>, <<"h">>, <<"T">>, <<"t", "h">>}

InitFM ==
    /\ Idle
    /\ \E cols \in SeqsUpTo(Names, MaxCols) :
       \E substrings \in SeqsUpTo(SubPool, 2) :
          call = [fn |-> "first_match", cols |-> cols, substrings |-> substrings,
                  done |-> FALSE, ret |-> None]

CallFirstMatch ==
    /\ call.fn = "first_match"
    /\ ~call.done
    /\ call' = [call EXCEPT !.done = TRUE,
                            !.ret = first_match(call.cols, call.substrings)]
    /\ UNCHANGED pipeVars

SpecFM == InitFM /\ [][CallFirstMatch]_vars

OptPool == {<<"a">>, <<"b">>, <<"a", "b">>}
Pending == [raised |-> FALSE, v |-> -1]

InitSI ==
    /\ Idle
    /\ \E options \in SeqsUpTo(OptPool, MaxCols) :
       \E value \in OptPool \cup {None, <<"z">>} :
       \E offset \in {0, 1} :
       \E fallback \in {0, 5} :
          call = [fn |-> "safe_index", options |-> options, value |-> value,
                  offset |-> offset, fallback |-> fallback,
                  done |-> FALSE, ret |-> Pending]

CallSafeIndex ==
    /\ call.fn = "safe_index"
    /\ ~call.done
    /\ call' = [call EXCEPT !.done = TRUE,
                            !.ret = safe_index(call.options, call.value,
                                               call.offset, call.fallback)]
    /\ UNCHANGED pipeVars

SpecSI == InitSI /\ [][CallSafeIndex]_vars

\* ================================================================ claims
SetMin(S) == CHOOSE x \in S : \A y \in S : x <= y

\* columns (1-based) whose lowercased name contains sub
Matching(cols, sub) == {i \in DOMAIN cols : Contains(sub, lower(cols[i]))}

ThmC2 ==
    (call.fn = "safe_index" /\ call.done) =>
        /\ ~call.ret.raised
        /\ call.ret.v \in Int
        /\ LET at == {i \in DOMAIN call.options : call.options[i] = call.value}
           IN IF call.value # None /\ at # {}
              THEN call.ret.v = call.offset + (SetMin(at) - 1)
              ELSE call.ret.v = call.fallback

\* the value is absent (options.index raises inside) and the fallback comes back
WitC2 ==
    /\ call.fn = "safe_index" /\ call.done
    /\ call.value = <<"z">>
    /\ call.options # <<>>
    /\ call.fallback = 5
    /\ call.ret = [raised |-> FALSE, v |-> 5]

\* ---------------------------------------------- the session: vocabulary
\* the table as loaded from the source, whatever the run did since
Loaded == read_csv(source).table

\* the cell of the loaded table at row i, column name
Raw(i, name) == Loaded.rows[i][ColPos(Loaded, name)]

\* Prepare has run in this run
Prepared == pc \in {"render", "done"} \/ (pc = "stopped" /\ shown.selectors)

\* q is (f - 32) * 5 / 9, cross-multiplied
IsFtoC(q, f) == q[1] * 9 * f[2] = (f[1] - 32 * f[2]) * 5 * q[2]

\* c is the Celsius value of raw cell r under the unit
IsCelsiusOf(c, r, unit) ==
    IF r.k # "num" THEN c = NaN
    ELSE /\ c.k = "num"
         /\ IF unit = UNIT_F THEN IsFtoC(c.q, r.q) ELSE c.q = r.q

TempMissing(i) == Raw(i, sel.temp_col).k # "num"
HumMissing(i) == Raw(i, sel.hum_col).k # "num"
KeptPositions == {plot_df.rows[k].pos : k \in DOMAIN plot_df.rows}

\* C3: statistics are reached only with at least one non-missing Celsius
\* temperature; with none, the run ends in NoUsableDataError, which is not
\* the empty-table outcome, and no mean/min/max is computed.
ThmC3 ==
    LET usable == \E i \in DOMAIN Loaded.rows : ~TempMissing(i)
    IN /\ Prepared =>
            /\ (~usable) <=> (shown.error = "NoUsableDataError")
            /\ (~usable) => (pc = "stopped" /\ shown.kpi = <<>>)
            /\ shown.error # "EmptyInputError"
            /\ ~df_empty(Loaded)
       /\ (pc \in {"render", "done"} \/ shown.kpi # <<>>) =>
            (sel \in Selections(Loaded.cols) /\ usable)
       /\ shown.kpi # <<>> => shown.kpi[1].avg.k = "num"

\* every temperature is text, a humidity value is there, and the run stopped
WitC3 ==
    /\ pc = "stopped"
    /\ shown.error = "NoUsableDataError"
    /\ sel.hum_col = N_hum
    /\ sel.temp_col = N_Temp
    /\ Len(plot_df.rows) = 1
    /\ Raw(1, N_Temp).k = "str"
    /\ Raw(1, N_hum).k = "num"

\* C4: a row of the source table is absent from plot_df iff every plotted
\* series is missing for it: with a Humidity column selected, iff its
\* Temperature and its Humidity are both missing; with none selected, iff its
\* Temperature is missing; the index label plays no part.
CexC4 ==
    Prepared =>
        \A i \in DOMAIN Loaded.rows :
            (i \notin KeptPositions) <=>
                (TempMissing(i) /\ (sel.hum_col # NONE_OPTION => HumMissing(i)))

\* What holds of dropna(how="all"): the rows dropped are those whose values
\* in the working copy are all NaN, in the order of the loaded table; these
\* are the coerced cells of the loaded table unless the humidity column is
\* the one line 106/108 overwrites.
DropnaOverWork ==
    Prepared =>
        /\ \A i \in DOMAIN Loaded.rows :
              LET t_na == isna(GetCol(work, Temperature_C)[i])
                  h_na == isna(GetCol(work, sel.hum_col)[i])
              IN /\ t_na <=> TempMissing(i)
                 /\ IF sel.hum_col = NONE_OPTION
                    THEN (i \notin KeptPositions) <=> TempMissing(i)
                    ELSE /\ (i \notin KeptPositions) <=> (t_na /\ h_na)
                         /\ (sel.hum_col # Temperature_C \/ sel.temp_col = Temperature_C)
                               => (h_na <=> HumMissing(i))
        /\ KeptPositions \subseteq DOMAIN Loaded.rows
        /\ \A k \in DOMAIN plot_df.rows :
              k > 1 => plot_df.rows[k - 1].pos < plot_df.rows[k].pos

\* humidity plotted, temperature missing, humidity present: the row is kept
KeptOnHumidity ==
    /\ Prepared
    /\ sel.hum_col = N_hum
    /\ sel.temp_col = N_Temp
    /\ sel.x_col = N_Temp
    /\ Len(plot_df.rows) = 1
    /\ isna(plot_df.rows[1].vals[1])
    /\ ~isna(plot_df.rows[1].vals[2])

\* C5: the Celsius series is the numeric-coerced Temperature column as it is
\* under Celsius and (f - 32) * 5/9 element-wise under Fahrenheit; missing
\* and non-numeric cells give missing; 32 and 212 Fahrenheit give 0 and 100,
\* mean 50, min 0, max 100.
ThmC5 ==
    /\ Prepared =>
          LET raw == GetCol(Loaded, sel.temp_col)
              tc == GetCol(work, Temperature_C)
          IN \A i \in DOMAIN raw : IsCelsiusOf(tc[i], raw[i], sel.unit)
    /\ (pc = "done" /\ sel.unit = UNIT_F
          /\ [i \in DOMAIN Loaded.rows |-> Raw(i, sel.temp_col)]
                = <<Num(<<32, 1>>), Num(<<212, 1>>)>>) =>
          /\ temp_values_of(plot_df) = <<<<0, 1>>, <<100, 1>>>>
          /\ shown.kpi = <<[avg |-> Num(<<50, 1>>), min |-> Num(<<0, 1>>),
                            max |-> Num(<<100, 1>>)]>>

\* the scenario: 32 and 212 in Fahrenheit, rendered
WitC5 ==
    /\ pc = "done"
    /\ sel.unit = UNIT_F
    /\ [i \in DOMAIN Loaded.rows |-> Raw(i, sel.temp_col)]
          = <<Num(<<32, 1>>), Num(<<212, 1>>)>>
    /\ shown.kpi[1].avg = Num(<<50, 1>>)

\* C6: each of the three errors ends the run: nothing is rendered after it
\* (no selectors after a load or empty-table error; no KPIs, chart, table,
\* list or export after any), and no step of the script is taken again.
ThmC6 ==
    shown.error # "none" =>
        /\ pc = "stopped"
        /\ shown.kpi = <<>>
        /\ ~shown.chart
        /\ ~shown.table
        /\ ~shown.listed
        /\ shown.export = NoExport
        /\ ~ENABLED (Load \/ Select \/ Prepare \/ Render)
        /\ shown.error \in {"SourceReadError", "EmptyInputError"} =>
              /\ ~shown.selectors
              /\ sel = NoSel
              /\ idx = NoIdx
              /\ ~ENABLED Next

\* a header line and no data: the empty-table stop
WitC6 ==
    /\ shown.error = "EmptyInputError"
    /\ pc = "stopped"
    /\ source.kind = "csv"
    /\ Len(source.header) = 2

\* |a - b| <= 10^-6 on rationals, without leaving 32 bits
Within1e6(a, b) ==
    Abs(a[1] * b[2] - b[1] * a[2]) <= (a[2] * b[2]) \div (10 ^ 6)

\* two cells agree: both missing, the same text, or numbers within 10^-6
Close(c1, c2) ==
    CASE c1.k = "num" /\ c2.k = "num" -> Within1e6(c1.q, c2.q)
      [] OTHER -> c1 = c2

Reloaded == read_csv(shown.export)

\* C7: the export holds every column of the loaded table with the values it
\* had when loaded, plus a Temperature (°C) column holding the Celsius
\* series, one record per loaded row.
CexC7 ==
    pc = "done" =>
        LET R == Reloaded.table
        IN /\ ~Reloaded.raised
           /\ Len(R.rows) = Len(Loaded.rows)
           /\ Temperature_degC \in Range(R.cols)
           /\ \A i \in DOMAIN Loaded.rows :
                 IsCelsiusOf(GetCol(work, Temperature_C)[i], Raw(i, sel.temp_col), sel.unit)
                 /\ Close(GetCol(R, Temperature_degC)[i], GetCol(work, Temperature_C)[i])
           /\ \A j \in DOMAIN Loaded.cols :
                 /\ Loaded.cols[j] \in Range(R.cols)
                 /\ \A i \in DOMAIN Loaded.rows :
                       GetCol(R, Loaded.cols[j])[i] = Loaded.rows[i][j]

\* C8: each selector's default index is inside its own option list and
\* designates the heuristic guess when there is one: Temperature the "temp"
\* column else the first column; Humidity the "hum" column else "<none>";
\* X-axis the date/time/day/timestamp column else "<index>".
ThmC8 ==
    pc = "prepare" =>
        LET cols == Loaded.cols
            first(sub) == cols[SetMin(Matching(cols, sub))]
            has(sub) == Matching(cols, sub) # {}
            xsub == <<SUB_date, SUB_time, SUB_day, SUB_timestamp>>
            xhits == {j \in DOMAIN xsub : has(xsub[j])}
        IN /\ cols # <<>>
           /\ idx.temp_idx \in 0..(Len(cols) - 1)
           /\ idx.hum_idx \in 0..Len(cols)
           /\ idx.x_idx \in 0..Len(cols)
           /\ cols[idx.temp_idx + 1] = IF has(SUB_temp) THEN first(SUB_temp) ELSE cols[1]
           /\ hum_options_of(cols)[idx.hum_idx + 1] =
                 IF has(SUB_hum) THEN first(SUB_hum) ELSE NONE_OPTION
           /\ x_options_of(cols)[idx.x_idx + 1] =
                 IF xhits # {} THEN first(xsub[SetMin(xhits)]) ELSE INDEX_OPTION
           /\ widgets = NoWidgets =>
                 /\ sel.temp_col = cols[idx.temp_idx + 1]
                 /\ sel.hum_col = hum_options_of(cols)[idx.hum_idx + 1]
                 /\ sel.x_col = x_options_of(cols)[idx.x_idx + 1]
                 /\ sel.unit = UNIT_C

\* a fresh session on columns hum, Temperature_C: the second column is the
\* temperature guess, the first the humidity guess, no time column
WitC8 ==
    /\ widgets = NoWidgets
    /\ pc = "prepare"
    /\ idx = [temp_idx |-> 1, hum_idx |-> 1, x_idx |-> 0]
    /\ sel.temp_col = Temperature_C
    /\ sel.hum_col = N_hum
    /\ sel.x_col = INDEX_OPTION

\* C9: whatever selections came before, the loaded table is the source's
\* table, untouched by coercion and conversion, and what a run renders is
\* read off that table and the current selections alone, the conversion
\* applied once to the raw values.
ThmC9 ==
    /\ (pc # "load" /\ source.kind # "noupload") => df = Loaded
    /\ pc = "done" =>
          LET src_rows == SelectSeq([i \in DOMAIN Loaded.rows |-> i],
                                    LAMBDA i : ~TempMissing(i))
              out_tc == GetCol(Reloaded.table, Temperature_degC)
          IN /\ Len(shown.list) = Len(src_rows)
             /\ \A k \in DOMAIN src_rows :
                   IsCelsiusOf(Num(shown.list[k]), Raw(src_rows[k], sel.temp_col), sel.unit)
             /\ \A i \in DOMAIN Loaded.rows :
                   \E c \in {GetCol(work, Temperature_C)[i]} :
                       /\ IsCelsiusOf(c, Raw(i, sel.temp_col), sel.unit)
                       /\ Close(out_tc[i], c)

\* after a change of selection: Fahrenheit on the column named Temperature_C,
\* with a text cell the coercion turned to NaN in the copy only
WitC9 ==
    /\ widgets # NoWidgets
    /\ pc = "done"
    /\ sel.unit = UNIT_F
    /\ sel.temp_col = Temperature_C
    /\ \E i \in DOMAIN df.rows :
          /\ GetCol(df, Temperature_C)[i].k = "str"
          /\ isna(GetCol(work, Temperature_C)[i])

\* C10: the export, read back with read_csv, has as many rows as the loaded
\* table (rows dropped from plot_df included) and the same Temperature (°C)
\* values within 10^-6, missing ones missing.
ThmC10 ==
    pc = "done" =>
        /\ ~Reloaded.raised
        /\ Len(Reloaded.table.rows) = Len(df.rows)
        /\ Len(df.rows) = Len(Loaded.rows)
        /\ Temperature_degC \in Range(Reloaded.table.cols)
        /\ \A i \in DOMAIN df.rows :
              LET back == GetCol(Reloaded.table, Temperature_degC)[i]
                  tc == GetCol(work, Temperature_C)[i]
              IN IF isna(tc) THEN isna(back)
                 ELSE back.k = "num" /\ Within1e6(back.q, tc.q)

\* a row dropped from plot_df and a Celsius value that is no finite decimal
WitC10 ==
    /\ pc = "done"
    /\ Len(plot_df.rows) < Len(df.rows)
    /\ sel.unit = UNIT_F
    /\ \E i \in DOMAIN work.rows : GetCol(work, Temperature_C)[i] = Num(<<5, 9>>)

====
